---- MODULE Spec2Model ----
(***************************************************************************)
(* Model of src/src/components/BikeViewer.jsx: the image palette extractor *)
(* extractPaletteFromImage and the BikeViewer handlers that call it.       *)
(*                                                                         *)
(* A pixel is <<r, g, b, a>>; the RGBA byte buffer `data` is a sequence of *)
(* pixels (the code walks it with stride 4).  A colour is <<r, g, b>>.  A  *)
(* hex string is a sequence of one-character strings, so that its length   *)
(* and its characters can be inspected.                                    *)
(***************************************************************************)
EXTENDS Integers, Sequences, FiniteSets

(* ----------------------------- bounds ---------------------------------- *)

\* longest pixel buffer drawn in SpecExtract
MaxPixels == 3

\* largest maxColors argument drawn in SpecExtract
MaxColorsArg == 3

\* most extraction calls awaiting their image load at once in Spec
MaxPending == 2

\* most swatch clicks (handleColorPick) in one behaviour of Spec
MaxPicks == 1

(* ------------------------ program constants ---------------------------- *)

AlphaCutoff == 200

WhiteMax == 245

WhiteMin == 230

DistinctThreshold == 30

UiMaxColors == 6

(* ------------------------- sample pixels ------------------------------- *)

red == <<255, 0, 0, 255>>

\* same 5-bit bucket as red, alpha exactly at the cutoff
red2 == <<248, 7, 3, 200>>

\* bucket representative (252,28,4): 24 away from red's, not distinct
nearRed == <<255, 24, 0, 255>>

\* representative (228,20,20): sqrt(1088) from red's (distinct), sqrt(896)
\* from nearRed's (not distinct)
edgeRed == <<228, 20, 20, 255>>

white == <<255, 255, 255, 255>>

\* near-white: max 246 > 245 and min 231 > 230
offWhite == <<246, 231, 240, 255>>

\* not near-white: min is exactly 230
pale == <<255, 230, 255, 255>>

\* alpha one below the cutoff
clear == <<10, 20, 30, 199>>

Pixels == {red, red2, nearRed, edgeRed, white, offWhite, pale, clear}

RECURSIVE SeqsUpTo(_, _)
SeqsUpTo(S, n) ==
    IF n = 0 THEN {<<>>}
    ELSE LET shorter == SeqsUpTo(S, n - 1)
         IN  shorter \cup {Append(s, x) : s \in {t \in shorter : Len(t) = n - 1}, x \in S}

Buffers == SeqsUpTo(Pixels, MaxPixels)

(* ------------------- extractPaletteFromImage: helpers ------------------ *)

Max3(x, y, z) == IF x >= y /\ x >= z THEN x ELSE IF y >= z THEN y ELSE z

Min3(x, y, z) == IF x <= y /\ x <= z THEN x ELSE IF y <= z THEN y ELSE z

Abs(x) == IF x < 0 THEN -x ELSE x

\* variant: only fully transparent pixels are skipped
SkipTransparent_ZeroOnly(px) == px[4] = 0

\* if (a < 200) continue
SkipTransparent(px) == px[4] < AlphaCutoff

\* if (maxRGB > 245 && minRGB > 230) continue
NearWhite(px) ==
    /\ Max3(px[1], px[2], px[3]) > WhiteMax
    /\ Min3(px[1], px[2], px[3]) > WhiteMin

\* key = (rq << 10) | (gq << 5) | bq with rq = r >> 3, ...
BucketKey(px) == ((px[1] \div 8) * 1024) + ((px[2] \div 8) * 32) + (px[3] \div 8)

SeqIndexOfKey(h, key) ==
    IF \E i \in 1..Len(h) : h[i][1] = key
    THEN CHOOSE i \in 1..Len(h) : h[i][1] = key
    ELSE 0

\* hist.set(key, (hist.get(key) || 0) + 1); a Map keeps insertion order
HistSet(h, key) ==
    LET i == SeqIndexOfKey(h, key)
    IN  IF i = 0 THEN Append(h, <<key, 1>>)
        ELSE [h EXCEPT ![i] = <<key, h[i][2] + 1>>]

\* the histogram loop over the first n pixels of data
RECURSIVE BuildHist(_, _)
BuildHist(d, n) ==
    IF n = 0 THEN <<>>
    ELSE LET h == BuildHist(d, n - 1)
             px == d[n]
         IN  IF SkipTransparent(px) THEN h
             ELSE IF NearWhite(px) THEN h
             ELSE HistSet(h, BucketKey(px))

\* insert e behind every entry whose count is >= e's (stable, descending)
InsertDesc(s, e) ==
    LET k == Cardinality({i \in 1..Len(s) : s[i][2] >= e[2]})
    IN  SubSeq(s, 1, k) \o <<e>> \o SubSeq(s, k + 1, Len(s))

\* variant: the entries are left in insertion order
SortEntries_Unsorted(h) == h

\* Array.from(hist.entries()).sort((a, b) => b[1] - a[1])
RECURSIVE SortEntries(_)
SortEntries(h) ==
    IF h = <<>> THEN <<>>
    ELSE InsertDesc(SortEntries(SubSeq(h, 1, Len(h) - 1)), h[Len(h)])

\* variant: the bucket's lower corner instead of its midpoint
Candidate_NoMidpoint(key) ==
    << ((key \div 1024) % 32) * 8, ((key \div 32) % 32) * 8, (key % 32) * 8 >>

\* r = (rq << 3) | 4 with rq = (key >> 10) & 31, ...
Candidate(key) ==
    << (((key \div 1024) % 32) * 8) + 4,
       (((key \div 32) % 32) * 8) + 4,
       ((key % 32) * 8) + 4 >>

\* variant: the channel differences are added, not squared
distinct_Manhattan(c1, c2) ==
    Abs(c1[1] - c2[1]) + Abs(c1[2] - c2[2]) + Abs(c1[3] - c2[3]) > DistinctThreshold

\* Math.sqrt(dr*dr + dg*dg + db*db) > 30; the sum is an integer, so the
\* square root exceeds 30 exactly when the sum exceeds 30*30
distinct(c1, c2) ==
    LET dr == Abs(c1[1] - c2[1])
        dg == Abs(c1[2] - c2[2])
        db == Abs(c1[3] - c2[3])
    IN  (dr * dr) + (dg * dg) + (db * db) > DistinctThreshold * DistinctThreshold

\* if (palette.every((p) => distinct(p, cand))) palette.push(cand)
PushIfDistinct(pal, key) ==
    LET cand == Candidate(key)
    IN  IF \A i \in 1..Len(pal) : distinct(pal[i], cand)
        THEN Append(pal, cand)
        ELSE pal

\* if (palette.length >= maxColors) break
WalkBreaks(pal, mc) == Len(pal) >= mc

\* the greedy loop from entry i on
RECURSIVE GreedyWalk(_, _, _, _)
GreedyWalk(es, i, pal, mc) ==
    IF i > Len(es) THEN pal
    ELSE LET next == PushIfDistinct(pal, es[i][1])
         IN  IF WalkBreaks(next, mc) THEN next
             ELSE GreedyWalk(es, i + 1, next, mc)

RECURSIVE SumChannel(_, _, _)
SumChannel(d, n, ch) ==
    IF n = 0 THEN 0
    ELSE SumChannel(d, n - 1, ch)
         + (IF SkipTransparent(d[n]) THEN 0 ELSE d[n][ch])

OpaqueCount(d) == Cardinality({i \in 1..Len(d) : ~SkipTransparent(d[i])})

\* variant: Math.floor instead of Math.round
RoundDiv_Floor(sum, count) == sum \div count

\* Math.round(sum / count): the nearest integer, halves up
RoundDiv(sum, count) == ((2 * sum) + count) \div (2 * count)

\* if (palette.length === 0) { ... if (count > 0) palette.push(average) }
FallbackAverage(pal, d) ==
    IF Len(pal) = 0
    THEN LET count == OpaqueCount(d)
         IN  IF count > 0
             THEN Append(pal, << RoundDiv(SumChannel(d, Len(d), 1), count),
                                 RoundDiv(SumChannel(d, Len(d), 2), count),
                                 RoundDiv(SumChannel(d, Len(d), 3), count) >>)
             ELSE pal
    ELSE pal

HexDigits == <<"0", "1", "2", "3", "4", "5", "6", "7", "8", "9", "a", "b", "c", "d", "e", "f">>

\* n.toString(16)
RECURSIVE ToString16(_)
ToString16(n) ==
    IF n < 16 THEN <<HexDigits[n + 1]>>
    ELSE Append(ToString16(n \div 16), HexDigits[(n % 16) + 1])

\* variant: no padding
PadStart2_None(s) == s

\* s.padStart(2, '0')
PadStart2(s) == IF Len(s) >= 2 THEN s ELSE <<"0">> \o s

\* `#${r.toString(16).padStart(2,'0')}${g...}${b...}`
ToHex(c) ==
    <<"#">> \o PadStart2(ToString16(c[1])) \o PadStart2(ToString16(c[2]))
            \o PadStart2(ToString16(c[3]))

\* palette.map(([r, g, b]) => ...)
HexAll(pal) == [i \in 1..Len(pal) |-> ToHex(pal[i])]

\* the whole function once the image has loaded, on the pixel buffer d
extractPaletteFromImage(d, mc) ==
    HexAll(FallbackAverage(GreedyWalk(SortEntries(BuildHist(d, Len(d))), 1, <<>>, mc), d))

(* --------------------------- BikeViewer state -------------------------- *)

Parts == {"body", "fairing", "tank", "wheels", "frame"}

\* '#c0c0c0', '#2b2b2b', '#808080'
InitialColors ==
    [p \in Parts |->
        IF p = "wheels" THEN <<"#", "2", "b", "2", "b", "2", "b">>
        ELSE IF p = "frame" THEN <<"#", "8", "0", "8", "0", "8", "0">>
        ELSE <<"#", "c", "0", "c", "0", "c", "0">>]

defaultPalette ==
    << <<"#", "e", "f", "4", "4", "4", "4">>, <<"#", "f", "5", "9", "e", "0", "b">>,
       <<"#", "1", "0", "b", "9", "8", "1">>, <<"#", "3", "b", "8", "2", "f", "6">>,
       <<"#", "8", "b", "5", "c", "f", "6">>, <<"#", "e", "c", "4", "8", "9", "9">>,
       <<"#", "1", "1", "1", "8", "2", "7">>, <<"#", "f", "f", "f", "f", "f", "f">> >>

\* a value typed into the custom colour input
CustomColors == { <<"#", "0", "0", "0", "0", "0", "0">> }

RemoteUrl == "https://www.carandbike.com/..."

BlobUrl == "blob:dropped-file"

NoFile == "undefined"

DroppedFiles == {NoFile, "file"}

ErrExtract == "Could not extract colors from the image. Try another link or download and drop it here."

ErrDrop == "Could not extract colors from the dropped image."

Handlers == {"onExtract", "onFileDrop"}

\* pixel buffers an image load can deliver in Spec
SampleImages == { <<clear>>, <<white, offWhite>>, <<pale, red, red2>> }

NoCall == [kind |-> "none", ok |-> FALSE, data |-> <<>>]

VARIABLES
    data,          \* extractPaletteFromImage: the pixel buffer of getImageData
    maxColors,     \* extractPaletteFromImage: the maxColors argument
    pc,            \* extractPaletteFromImage: position in the function body
    hist,          \* the Map key -> count, as <<key, count>> in insertion order
    entries,       \* the sorted entries array
    idx,           \* position of the for-of loop over entries
    localPalette,  \* the local `palette` array of colour triples
    cols,          \* the returned array of hex strings
    part,          \* useState('body')
    colors,        \* useState({body, fairing, tank, wheels, frame})
    palette,       \* useState(defaultPalette)
    imageUrl,      \* useState(url)
    extracting,    \* useState(false)
    error,         \* useState('')
    pending,       \* per handler, the calls suspended at `await load`
    settled,       \* the call whose load promise has just settled, or NoCall
    picks          \* number of handleColorPick calls so far

extractVars == <<data, maxColors, pc, hist, entries, idx, localPalette, cols>>

uiVars == <<part, colors, palette, imageUrl, extracting, error, pending, settled, picks>>

vars == <<extractVars, uiVars>>

\* the component state after the first render
InitUi ==
    /\ part = "body"
    /\ colors = InitialColors
    /\ palette = defaultPalette
    /\ imageUrl = RemoteUrl
    /\ extracting = FALSE
    /\ error = ""
    /\ pending = [h \in Handlers |-> 0]
    /\ settled = NoCall
    /\ picks = 0

\* no extraction is being stepped through
IdleExtract ==
    /\ data = <<>>
    /\ maxColors = UiMaxColors
    /\ pc = "idle"
    /\ hist = <<>>
    /\ entries = <<>>
    /\ idx = 1
    /\ localPalette = <<>>
    /\ cols = <<>>

(* ------------- extractPaletteFromImage, one phase per action ----------- *)

\* the image has loaded and getImageData returned `data`
InitExtract ==
    /\ data \in Buffers
    /\ maxColors \in 0..MaxColorsArg
    /\ pc = "scan"
    /\ hist = <<>>
    /\ entries = <<>>
    /\ idx = 1
    /\ localPalette = <<>>
    /\ cols = <<>>

\* lines 108-128: the histogram loop
ScanPixels ==
    /\ pc = "scan"
    /\ hist' = BuildHist(data, Len(data))
    /\ pc' = "sort"
    /\ UNCHANGED <<data, maxColors, entries, idx, localPalette, cols, uiVars>>

\* lines 130-131: sort the entries, start the walk with an empty palette
SortHist ==
    /\ pc = "sort"
    /\ entries' = SortEntries(hist)
    /\ idx' = 1
    /\ localPalette' = <<>>
    /\ pc' = IF entries' = <<>> THEN "fallback" ELSE "walk"
    /\ UNCHANGED <<data, maxColors, hist, cols, uiVars>>

\* lines 139-151: one iteration of the for-of loop
WalkStep ==
    /\ pc = "walk"
    /\ idx <= Len(entries)
    /\ localPalette' = PushIfDistinct(localPalette, entries[idx][1])
    /\ idx' = idx + 1
    /\ pc' = IF WalkBreaks(localPalette', maxColors) \/ idx' > Len(entries)
             THEN "fallback" ELSE "walk"
    /\ UNCHANGED <<data, maxColors, hist, entries, cols, uiVars>>

\* lines 153-165
Fallback ==
    /\ pc = "fallback"
    /\ localPalette' = FallbackAverage(localPalette, data)
    /\ pc' = "hex"
    /\ UNCHANGED <<data, maxColors, hist, entries, idx, cols, uiVars>>

\* line 168
ReturnHex ==
    /\ pc = "hex"
    /\ cols' = HexAll(localPalette)
    /\ pc' = "done"
    /\ UNCHANGED <<data, maxColors, hist, entries, idx, localPalette, uiVars>>

NextExtract == ScanPixels \/ SortHist \/ WalkStep \/ Fallback \/ ReturnHex

\* one call of the function on a loaded image; the component is untouched
InitCall == InitExtract /\ InitUi

SpecExtract == InitCall /\ [][NextExtract]_vars

(* ------------------------- BikeViewer handlers ------------------------- *)

InFlight == pending["onExtract"] + pending["onFileDrop"] + (IF settled = NoCall THEN 0 ELSE 1)

\* no promise continuation is waiting to run: the next event can be handled
EventLoopFree == settled = NoCall

\* onClick={() => setPart(p.id)}
setPart(p) ==
    /\ EventLoopFree
    /\ part' = p
    /\ UNCHANGED <<colors, palette, imageUrl, extracting, error, pending, settled, picks, extractVars>>

\* setColors((prev) => ({ ...prev, [part]: hex }))
handleColorPick(hex) ==
    /\ EventLoopFree
    /\ picks < MaxPicks
    /\ colors' = [colors EXCEPT ![part] = hex]
    /\ picks' = picks + 1
    /\ UNCHANGED <<part, palette, imageUrl, extracting, error, pending, settled, extractVars>>

\* the swatches clicked: the first and the last of the palette on display
ClickedSwatches == {palette[i] : i \in {1, Len(palette)}}

\* a click on a swatch, or a value from the custom colour input
PickColor == \E hex \in ClickedSwatches \cup CustomColors : handleColorPick(hex)

\* onExtract up to `await load`; the button is disabled while extracting
onExtract ==
    /\ EventLoopFree
    /\ ~extracting
    /\ InFlight < MaxPending
    /\ error' = ""
    /\ extracting' = TRUE
    /\ pending' = [pending EXCEPT !["onExtract"] = @ + 1]
    /\ UNCHANGED <<part, colors, palette, imageUrl, settled, picks, extractVars>>

\* onFileDrop(file) up to `await load`; the drop zone is never disabled
onFileDrop(file) ==
    /\ EventLoopFree
    /\ IF file = NoFile
       THEN UNCHANGED <<error, extracting, imageUrl, pending>>
       ELSE /\ InFlight < MaxPending
            /\ error' = ""
            /\ extracting' = TRUE
            /\ imageUrl' = BlobUrl
            /\ pending' = [pending EXCEPT !["onFileDrop"] = @ + 1]
    /\ UNCHANGED <<part, colors, palette, settled, picks, extractVars>>

\* img.onload: the load promise of one suspended call resolves
ImgOnLoad(h, d) ==
    /\ EventLoopFree
    /\ pending[h] > 0
    /\ pending' = [pending EXCEPT ![h] = @ - 1]
    /\ settled' = [kind |-> h, ok |-> TRUE, data |-> d]
    /\ UNCHANGED <<part, colors, palette, imageUrl, extracting, error, picks, extractVars>>

\* img.onerror: the load promise of one suspended call rejects
ImgOnError(h) ==
    /\ EventLoopFree
    /\ pending[h] > 0
    /\ pending' = [pending EXCEPT ![h] = @ - 1]
    /\ settled' = [kind |-> h, ok |-> FALSE, data |-> <<>>]
    /\ UNCHANGED <<part, colors, palette, imageUrl, extracting, error, picks, extractVars>>

\* variant: the result is applied even when it is empty
ApplyCols_Always(pal, c) == c

\* if (cols && cols.length) setPalette(cols)
ApplyCols(pal, c) == IF Len(c) > 0 THEN c ELSE pal

\* catch (e) { setError(...) }
CatchMessage(h) == IF h = "onExtract" THEN ErrExtract ELSE ErrDrop

\* finally { setExtracting(false) }
FinallyExtracting(flag) == FALSE

\* the rest of the handler after `await`, load resolved: try body, finally
ContinueResolved ==
    /\ settled # NoCall
    /\ settled.ok
    /\ palette' = ApplyCols(palette, extractPaletteFromImage(settled.data, UiMaxColors))
    /\ extracting' = FinallyExtracting(extracting)
    /\ settled' = NoCall
    /\ UNCHANGED <<part, colors, imageUrl, error, pending, picks, extractVars>>

\* variant: no finally block on the failure path
ContinueRejected_NoFinally ==
    /\ settled # NoCall
    /\ ~settled.ok
    /\ error' = CatchMessage(settled.kind)
    /\ settled' = NoCall
    /\ UNCHANGED <<part, colors, palette, imageUrl, extracting, pending, picks, extractVars>>

\* the rest of the handler after `await`, load rejected: catch, finally
ContinueRejected ==
    /\ settled # NoCall
    /\ ~settled.ok
    /\ error' = CatchMessage(settled.kind)
    /\ extracting' = FinallyExtracting(extracting)
    /\ settled' = NoCall
    /\ UNCHANGED <<part, colors, palette, imageUrl, pending, picks, extractVars>>

Init == InitUi /\ IdleExtract

Next ==
    \/ \E p \in Parts : setPart(p)
    \/ PickColor
    \/ onExtract
    \/ \E file \in DroppedFiles : onFileDrop(file)
    \/ \E h \in Handlers, d \in SampleImages : ImgOnLoad(h, d)
    \/ \E h \in Handlers : ImgOnError(h)
    \/ ContinueResolved
    \/ ContinueRejected

Spec == Init /\ [][Next]_vars

(* ---------------------- vocabulary of the properties ------------------- *)

HexDigitSet == {HexDigits[i] : i \in 1..16}

HexVal(ch) == CHOOSE v \in 0..15 : HexDigits[v + 1] = ch

\* the colour a '#rrggbb' string denotes
ParseHex(s) ==
    << (16 * HexVal(s[2])) + HexVal(s[3]),
       (16 * HexVal(s[4])) + HexVal(s[5]),
       (16 * HexVal(s[6])) + HexVal(s[7]) >>

\* the returned palette, read back as colour triples
Returned == [i \in 1..Len(cols) |-> ParseHex(cols[i])]

Opaque(px) == px[4] >= 200

AlmostWhite(px) ==
    /\ \E ch \in 1..3 : px[ch] > 245
    /\ \A ch \in 1..3 : px[ch] > 230

\* the pixel survives both filters of the histogram pass
Counted(px) == Opaque(px) /\ ~AlmostWhite(px)

\* midpoint of the 5-bit bucket of a pixel
Representative(px) == [ch \in 1..3 |-> ((px[ch] \div 8) * 8) + 4]

\* number of counted pixels of data in the bucket whose midpoint is c
BucketCount(c) ==
    Cardinality({i \in 1..Len(data) : Counted(data[i]) /\ Representative(data[i]) = c})

SquaredDistance(c1, c2) ==
    ((c1[1] - c2[1]) * (c1[1] - c2[1])) + ((c1[2] - c2[2]) * (c1[2] - c2[2]))
    + ((c1[3] - c2[3]) * (c1[3] - c2[3]))

PairwiseFar(pal) ==
    \A i, j \in 1..Len(pal) : i # j => SquaredDistance(pal[i], pal[j]) > 900

\* the greedy walk accepted something: the result is not the fallback
GreedyPath == \E i \in 1..Len(data) : Counted(data[i])

OpaqueIndices == {i \in 1..Len(data) : Opaque(data[i])}

RECURSIVE SumOver(_, _)
SumOver(I, ch) ==
    IF I = {} THEN 0
    ELSE LET i == CHOOSE k \in I : TRUE
         IN  data[i][ch] + SumOver(I \ {i}, ch)

\* m is sum/n rounded to the nearest integer, halves up
IsRoundedMean(m, sum, n) == (2 * n * m) - n <= 2 * sum /\ 2 * sum < (2 * n * m) + n

OnePixelValue == \E px \in Pixels : Len(data) > 0 /\ \A i \in 1..Len(data) : data[i] = px

(* ------------------------------- C1 ------------------------------------ *)

\* C1: for every pixel buffer and every maxColors >= 0 the returned palette
\* has at most maxColors entries, on the greedy path and on the fallback
\* path.  The code pushes before it tests the length, and the fallback
\* pushes without looking at maxColors, so maxColors = 0 returns one colour.
C1_LengthAtMostMaxColors == pc = "done" => Len(cols) <= maxColors

(* ------------------------------- C2 ------------------------------------ *)

\* C2: at every step of the greedy walk, and in the palette returned, any two
\* distinct entries are more than 30 apart in Euclidean RGB distance
\* (squared distance > 900).
C2_PairwiseDistinct ==
    /\ PairwiseFar(localPalette)
    /\ pc = "done" => Len(cols) = Len(localPalette) /\ PairwiseFar(Returned)

\* the walk finished with two colours after rejecting a third bucket
C2_Witness ==
    /\ pc = "done"
    /\ Len(cols) = 2
    /\ Len(entries) = 3
    /\ maxColors = 3

(* ------------------------------- C3 ------------------------------------ *)

\* C3: on the greedy path the returned palette is most-frequent-first: bucket
\* counts never increase along it, and when maxColors >= 1 its first entry
\* is the midpoint of a bucket with the largest count among counted pixels.
C3_MostFrequentFirst ==
    (pc = "done" /\ GreedyPath) =>
        /\ \A i, j \in 1..Len(cols) :
              i < j => BucketCount(Returned[i]) >= BucketCount(Returned[j])
        /\ maxColors >= 1 =>
              /\ Len(cols) >= 1
              /\ \A k \in 1..Len(data) :
                    Counted(data[k]) =>
                        BucketCount(Returned[1]) >= BucketCount(Representative(data[k]))

\* a rarer bucket was seen first and still comes second
C3_Witness ==
    /\ pc = "done"
    /\ data = <<pale, red, red2>>
    /\ maxColors = 2
    /\ Len(cols) = 2
    /\ BucketCount(Returned[1]) = 2
    /\ BucketCount(Returned[2]) = 1

(* ------------------------------- C4 ------------------------------------ *)

\* C4: an image of one opaque colour C that is not near-white, with
\* maxColors >= 1, yields exactly one colour, the midpoint of C's bucket
\* (((c >> 3) << 3) | 4 per channel), within 4 of C in each channel.
\* "Non-white" is read as the code's filter: not (max > 245 and min > 230).
C4_SingleColour ==
    (pc = "done" /\ OnePixelValue /\ Counted(data[1]) /\ maxColors >= 1) =>
        /\ Len(cols) = 1
        /\ Returned[1] = Representative(data[1])
        /\ \A ch \in 1..3 :
              /\ Returned[1][ch] - data[1][ch] <= 4
              /\ data[1][ch] - Returned[1][ch] <= 4

\* three pixels of the colour (255,230,255), which the white filter keeps
C4_Witness ==
    /\ pc = "done"
    /\ data = <<pale, pale, pale>>
    /\ maxColors = 1
    /\ cols = << <<"#", "f", "c", "e", "4", "f", "c">> >>

(* ------------------------------- C5 ------------------------------------ *)

\* C5: when every pixel with alpha >= 200 is near-white and there is one,
\* the greedy pass accepts nothing and the result is exactly one colour:
\* per channel the rounded mean of all pixels with alpha >= 200; a fully
\* white opaque image gives (255,255,255).
C5_FallbackAverage ==
    (OpaqueIndices # {} /\ \A i \in OpaqueIndices : AlmostWhite(data[i])) =>
        /\ pc \in {"fallback"} => localPalette = <<>>
        /\ pc = "done" =>
              /\ Len(cols) = 1
              /\ \A ch \in 1..3 :
                    IsRoundedMean(Returned[1][ch], SumOver(OpaqueIndices, ch),
                                  Cardinality(OpaqueIndices))
              /\ (\A i \in 1..Len(data) : data[i] = white) =>
                    cols = << <<"#", "f", "f", "f", "f", "f", "f">> >>

\* mean of (255,255,255) and (246,231,240) is (250.5, 243, 247.5), rounded
\* (251,243,248); the transparent pixel is left out
C5_Witness ==
    /\ pc = "done"
    /\ data = <<white, clear, offWhite>>
    /\ cols = << <<"#", "f", "b", "f", "3", "f", "8">> >>

(* ------------------------------- C6 ------------------------------------ *)

\* C6: when every pixel has alpha < 200 the result is the empty palette for
\* every maxColors: no bucket is counted and the fallback adds nothing.
C6_AllTransparentEmpty ==
    (\A i \in 1..Len(data) : data[i][4] < 200) =>
        /\ pc \in {"sort", "walk", "fallback", "hex", "done"} => hist = <<>>
        /\ pc \in {"hex", "done"} => localPalette = <<>>
        /\ pc = "done" => cols = <<>>

C6_Witness ==
    /\ pc = "done"
    /\ data = <<clear, clear>>
    /\ maxColors = 2
    /\ cols = <<>>

(* ------------------------------- C9 ------------------------------------ *)

\* C9: every returned string is '#' followed by six lowercase hexadecimal
\* digits, two zero-padded digits per channel in R,G,B order, each channel
\* an integer in 0..255; an opaque pure red image yields '#fc0404'.
C9_HexFormat ==
    pc = "done" =>
        /\ Len(cols) = Len(localPalette)
        /\ \A i \in 1..Len(cols) :
              /\ Len(cols[i]) = 7
              /\ cols[i][1] = "#"
              /\ \A k \in 2..7 : cols[i][k] \in HexDigitSet
              /\ ParseHex(cols[i]) = localPalette[i]
              /\ \A ch \in 1..3 : localPalette[i][ch] \in 0..255
        /\ (Len(data) > 0 /\ \A i \in 1..Len(data) : data[i] = red) =>
              cols = << <<"#", "f", "c", "0", "4", "0", "4">> >>

\* pure red on the greedy path
C9_Witness ==
    /\ pc = "done"
    /\ data = <<red, red>>
    /\ cols = << <<"#", "f", "c", "0", "4", "0", "4">> >>

(* ------------------------------- C7 ------------------------------------ *)

\* C7: when the image load fails the call rejects with no palette, and the
\* handler's continuation leaves palette and part colours unchanged, sets a
\* non-empty error message and ends with extracting = false.
C7_LoadFailure ==
    [][(settled # NoCall /\ ~settled.ok) =>
          /\ settled.data = <<>>
          /\ palette' = palette
          /\ colors' = colors
          /\ error' # ""
          /\ extracting' = FALSE]_vars

\* a failed drop after an earlier successful extraction and a colour pick
C7_Witness ==
    /\ settled = NoCall
    /\ error = ErrDrop
    /\ ~extracting
    /\ InFlight = 0
    /\ palette # defaultPalette
    /\ colors # InitialColors

(* ------------------------------- C8 ------------------------------------ *)

\* C8: when an extraction succeeds with an empty palette the handler leaves
\* the palette unchanged and sets no error; so the displayed palette is
\* never empty, whatever sequence of extractions ran.
C8_EmptyResultKeepsPalette ==
    /\ [](Len(palette) > 0)
    /\ [][(settled # NoCall /\ settled.ok
             /\ extractPaletteFromImage(settled.data, UiMaxColors) = <<>>) =>
            (palette' = palette /\ error' = error)]_vars

\* an empty result is about to be applied over an extracted palette, with
\* the error of another call on display
C8_Witness ==
    /\ settled # NoCall
    /\ settled.ok
    /\ settled.data = <<clear>>
    /\ palette # defaultPalette
    /\ error # ""

(* ------------------------------- C10 ----------------------------------- *)

\* C10: under any interleaving of onExtract and onFileDrop, extracting is
\* true whenever a started extraction has not settled, and false once all
\* have settled.  The flag is a boolean, not a count: the first call to
\* settle clears it while another is still loading.
C10_ExtractingTracksPending ==
    /\ InFlight > 0 => extracting
    /\ InFlight = 0 => ~extracting

====
